---- MODULE Spec2Model ----
(***************************************************************************)
(* AuthzManagerExternalState (mongo/db/auth/authz_manager_external_state)  *)
(* as a state machine: the adapter's public operations act on a document   *)
(* store reached through the pure virtual primitives _findUser, insert,    *)
(* update and remove.  Strings are sequences of tokens (a token stands for *)
(* a run of characters), so that the str::stream concatenations of the     *)
(* code are sequence concatenations and "the message contains x" is a      *)
(* contiguous-subsequence test.                                            *)
(***************************************************************************)
EXTENDS Integers, Sequences, FiniteSets, TLC

VARIABLES
    build,      \* "debug" | "release": whether dassert is compiled in
    pc,         \* "idle": no call in progress; "returned": a call has returned
                \* and its caller holds the result; "aborted": a failed
                \* dassert has terminated the process
    store,      \* set of [ns, doc]: the documents of every collection
    op,         \* the last adapter operation and its arguments
    result,     \* what that operation returned to its caller
    calls,      \* the store primitives that operation invoked, in order
    inserted    \* history: identities inserted through the adapter and not
                \* removed or updated since

vars == <<build, pc, store, op, result, calls, inserted>>

------------------------------------------------------------------------------
(* Bounds of the model *)

MaxDocs == 2        \* documents the store may hold
MaxVersion == 2     \* schema versions tried are -1..MaxVersion

------------------------------------------------------------------------------
(* Strings *)

\* str::stream << int : decimal digits, most significant first
Digit(d) == CASE d = 0 -> "0" [] d = 1 -> "1" [] d = 2 -> "2" [] d = 3 -> "3"
              [] d = 4 -> "4" [] d = 5 -> "5" [] d = 6 -> "6" [] d = 7 -> "7"
              [] d = 8 -> "8" [] d = 9 -> "9"

RECURSIVE NatToStr(_)
NatToStr(n) == IF n < 10 THEN <<Digit(n)>>
               ELSE NatToStr(n \div 10) \o <<Digit(n % 10)>>

IntToStr(n) == IF n < 0 THEN <<"-">> \o NatToStr(0 - n) ELSE NatToStr(n)

\* needle occurs in hay as a contiguous run
Contains(hay, needle) ==
    \E i \in 0..(Len(hay) - Len(needle)) :
        \A j \in 1..Len(needle) : hay[i + j] = needle[j]

------------------------------------------------------------------------------
(* Identities, db names, documents *)

UserName(user, db) == [user |-> user, db |-> db]

\* the identities tried: two ordinary ones that share a user name, the
\* internal one, and one whose db name is not valid
Identities == {UserName(<<"alice">>, <<"db1">>),
               UserName(<<"alice">>, <<"local">>),
               UserName(<<"__system">>, <<"local">>),
               UserName(<<"alice">>, <<"a", ".", "b">>)}
UserNames == {i.user : i \in Identities}

\* UserName::getFullName / toString : "user@db"
getFullName(userName) == userName.user \o <<"@">> \o userName.db

\* internalSecurity.user->getName()
InternalUserName == UserName(<<"__system">>, <<"local">>)

\* NamespaceString::validDBName
InvalidDbChars == {"/", "\\", ".", " ", "\""}
validDBName(db) ==
    /\ Len(db) > 0
    /\ Len(db) < 64
    /\ \A i \in 1..Len(db) : db[i] \notin InvalidDbChars

\* AuthorizationManager field names
V1_USER_NAME_FIELD_NAME == "user"
V1_USER_SOURCE_FIELD_NAME == "userSource"
USER_NAME_FIELD_NAME == "user"
USER_SOURCE_FIELD_NAME == "source"
DATA_FIELD_NAME == "roles"

\* BSON elements and objects (an object is a sequence of elements)
StrElem(name, s) == [name |-> name, type |-> "String", val |-> s]
NullElem(name) == [name |-> name, type |-> "Null", val |-> <<>>]
EmptyObj == <<>>

HasField(obj, name) == \E i \in 1..Len(obj) : obj[i].name = name
Field(obj, name) == obj[CHOOSE i \in 1..Len(obj) : obj[i].name = name]

Payloads == {0, 1}
Versions == (0 - 1)..MaxVersion
WriteConcerns == {<<"w1">>, <<"majority">>}

\* a V2 privilege document for (user, source)
UserDoc(u, s, p) == <<StrElem(USER_NAME_FIELD_NAME, u),
                      StrElem(USER_SOURCE_FIELD_NAME, s),
                      StrElem(DATA_FIELD_NAME, IntToStr(p))>>
UserDocs == {UserDoc(i.user, i.db, p) : i \in Identities, p \in Payloads}

\* a V1 privilege document: no userSource field
V1Doc(u, p) == <<StrElem(V1_USER_NAME_FIELD_NAME, u),
                 StrElem(DATA_FIELD_NAME, IntToStr(p))>>

\* update patterns: {$set: {roles: p}}
UpdatePattern(p) == <<StrElem(DATA_FIELD_NAME, IntToStr(p))>>
UpdatePatterns == {UpdatePattern(p) : p \in Payloads}

AdminUsersNs == <<"admin", ".system.users">>

------------------------------------------------------------------------------
(* Status *)

Status(code, reason) == [code |-> code, reason |-> reason]
StatusOK == Status("OK", <<>>)
isOK(status) == status.code = "OK"

------------------------------------------------------------------------------
(* The store collaborator: the pure virtual primitives _findUser, insert,  *)
(* update and remove.  `fault` is the environment's choice for one call:   *)
(* "none" (the store answers from its contents), one of StoreErrorCodes    *)
(* (the call fails with that code), or "multi" (an update that ignores     *)
(* multi = false and touches every matching document).                     *)

StoreErrorCodes == {"UnknownError", "HostUnreachable", "DuplicateKey", "NoMatchingDocument"}
StoreError(code) == Status(code, <<"store: ", code>>)
FindFaults == {"none", "UnknownError", "HostUnreachable"}
WriteFaults == {"none"} \cup StoreErrorCodes
UpdateFaults == WriteFaults \cup {"multi"}

Entry(ns, doc) == [ns |-> ns, doc |-> doc]

\* query matching: equality per element; null matches a missing or null field
Matches(doc, query) ==
    \A i \in 1..Len(query) :
        IF query[i].type = "Null"
        THEN \/ ~HasField(doc, query[i].name)
             \/ Field(doc, query[i].name).type = "Null"
        ELSE /\ HasField(doc, query[i].name)
             /\ Field(doc, query[i].name) = query[i]

Matching(st, ns, query) == {e \in st : e.ns = ns /\ Matches(e.doc, query)}

V2Docs(st) == {e \in st : e.ns = AdminUsersNs}

\* the unique index of admin.system.users: (user, source)
ElemOrNull(doc, name) == IF HasField(doc, name) THEN Field(doc, name) ELSE NullElem(name)
KeyOf(doc) == <<ElemOrNull(doc, USER_NAME_FIELD_NAME), ElemOrNull(doc, USER_SOURCE_FIELD_NAME)>>

\* $set: replace the fields the pattern names, append those the document lacks
ApplyUpdate(doc, upd) ==
    [i \in 1..Len(doc) |-> IF HasField(upd, doc[i].name) THEN Field(upd, doc[i].name) ELSE doc[i]]
    \o SelectSeq(upd, LAMBDA el : ~HasField(doc, el.name))

\* the document an upsert creates: the query's equality fields, then the update
UpsertDoc(query, upd) ==
    ApplyUpdate(SelectSeq(query, LAMBDA el : el.type # "Null"), upd)

StoreNotFound == Status("UserNotFound", <<"No matching entry">>)
StoreDuplicateKey == Status("DuplicateKey", <<"E11000 duplicate key error">>)

\* _findUser(usersNamespace, query, &result): one matching document, or not found
findUser(st, ns, query, fault) ==
    IF fault # "none"
    THEN {[ret |-> StoreError(fault), doc |-> EmptyObj]}
    ELSE IF Matching(st, ns, query) = {}
         THEN {[ret |-> StoreNotFound, doc |-> EmptyObj]}
         ELSE {[ret |-> StatusOK, doc |-> e.doc] : e \in Matching(st, ns, query)}

\* insert(collectionName, document, writeConcern)
storeInsert(st, ns, doc, fault) ==
    IF fault # "none"
    THEN [ret |-> StoreError(fault), st |-> st]
    ELSE IF \E e \in st : e.ns = ns /\ KeyOf(e.doc) = KeyOf(doc)
         THEN [ret |-> StoreDuplicateKey, st |-> st]
         ELSE [ret |-> StatusOK, st |-> st \cup {Entry(ns, doc)}]

UpdateAll(st, M, upd) == (st \ M) \cup {Entry(e.ns, ApplyUpdate(e.doc, upd)) : e \in M}

\* update(collectionName, query, updatePattern, upsert, multi, writeConcern, &numUpdated)
\* n = -1 stands for "numUpdated not written"
storeUpdate(st, ns, query, upd, upsert, multi, fault) ==
    LET M == Matching(st, ns, query) IN
    IF fault \in StoreErrorCodes
    THEN {[ret |-> StoreError(fault), n |-> 0 - 1, st |-> st]}
    ELSE IF M = {}
         THEN IF fault = "multi" THEN {}
              ELSE IF upsert
                   THEN {[ret |-> StatusOK, n |-> 1,
                          st |-> st \cup {Entry(ns, UpsertDoc(query, upd))}]}
                   ELSE {[ret |-> StatusOK, n |-> 0, st |-> st]}
         ELSE IF multi \/ fault = "multi"
              THEN IF fault = "multi" /\ Cardinality(M) < 2 THEN {}
                   ELSE {[ret |-> StatusOK, n |-> Cardinality(M), st |-> UpdateAll(st, M, upd)]}
              ELSE {[ret |-> StatusOK, n |-> 1, st |-> UpdateAll(st, {e}, upd)] : e \in M}

\* remove(collectionName, query, writeConcern, &numRemoved)
storeRemove(st, ns, query, fault) ==
    IF fault # "none"
    THEN [ret |-> StoreError(fault), n |-> 0 - 1, st |-> st]
    ELSE [ret |-> StatusOK, n |-> Cardinality(Matching(st, ns, query)),
          st |-> st \ Matching(st, ns, query)]

------------------------------------------------------------------------------
(* The adapter: getPrivilegeDocument *)

\* variant: the internal-user test is missing
isInternalUser_missing(userName) == FALSE

\* line 46: userName == internalSecurity.user->getName()
isInternalUser(userName) == userName = InternalUserName

InternalErrorStatus ==
    Status("InternalError", <<"Requested privilege document for the internal user">>)

\* variant: the message does not carry the db name
BadDbNameStatus_noName(dbname) == Status("BadValue", <<"Bad database name">>)

\* lines 54-55
BadDbNameStatus(dbname) ==
    Status("BadValue", <<"Bad database name \"">> \o dbname \o <<"\"">>)

\* lines 61-73: the versions the if / else-if chain accepts
versionRecognized(authzVersion) == authzVersion = 1 \/ authzVersion = 2

\* variant: every version reads the per-database collection
usersNamespace_perDb(dbname, authzVersion) == dbname \o <<".system.users">>

\* lines 62, 66
usersNamespace(dbname, authzVersion) ==
    IF authzVersion = 1 THEN dbname \o <<".system.users">> ELSE AdminUsersNs

\* variant: the V1 filter carries the db as the source instead of null
getQuery_v1Source(userName, authzVersion) ==
    IF authzVersion = 1
    THEN <<StrElem(V1_USER_NAME_FIELD_NAME, userName.user),
           StrElem(V1_USER_SOURCE_FIELD_NAME, userName.db)>>
    ELSE <<StrElem(USER_NAME_FIELD_NAME, userName.user),
           StrElem(USER_SOURCE_FIELD_NAME, userName.db)>>

\* lines 63-64, 67-68: queryBuilder.obj()
getQuery(userName, authzVersion) ==
    IF authzVersion = 1
    THEN <<StrElem(V1_USER_NAME_FIELD_NAME, userName.user),
           NullElem(V1_USER_SOURCE_FIELD_NAME)>>
    ELSE <<StrElem(USER_NAME_FIELD_NAME, userName.user),
           StrElem(USER_SOURCE_FIELD_NAME, userName.db)>>

\* lines 70-72
UnsupportedFormatStatus(authzVersion) ==
    Status("UnsupportedFormat",
           <<"Unrecognized authorization format version: ">> \o IntToStr(authzVersion))

\* lines 78-91: the status returned once _findUser has answered
getFoundStatus(found, userName, ns) ==
    IF ~isOK(found)
    THEN IF found.code = "UserNotFound"
         THEN Status("UserNotFound",
                     <<"auth: couldn't find user ">> \o getFullName(userName)
                         \o <<", ">> \o ns)
         ELSE found
    ELSE StatusOK

------------------------------------------------------------------------------
(* hasAnyPrivilegeDocuments *)

\* variant: only "not found" counts as no documents
hasAnyResult_onlyNotFound(found) == found.code # "UserNotFound"

\* line 99
hasAnyResult(found) == isOK(found)

------------------------------------------------------------------------------
(* insertPrivilegeDocument, updatePrivilegeDocument, removePrivilegeDocuments *)

\* variant: DuplicateKey is passed through with the store's message
insertStatus_noDuplicate(status, userObj) ==
    IF isOK(status) THEN status
    ELSE IF status.code = "UnknownError"
    THEN Status("UserModificationFailed", status.reason)
    ELSE status

\* lines 107-120
insertStatus(status, userObj) ==
    IF isOK(status) THEN status
    ELSE IF status.code = "DuplicateKey"
    THEN Status("DuplicateKey",
                <<"User \"">> \o Field(userObj, USER_NAME_FIELD_NAME).val \o <<"@">>
                    \o Field(userObj, USER_SOURCE_FIELD_NAME).val \o <<"\" already exists">>)
    ELSE IF status.code = "UnknownError"
    THEN Status("UserModificationFailed", status.reason)
    ELSE status

\* lines 127-128
updateQuery(user) ==
    <<StrElem(USER_NAME_FIELD_NAME, user.user), StrElem(USER_SOURCE_FIELD_NAME, user.db)>>

\* variant: updatePrivilegeDocument asks for an upsert
updateUpsert_true == TRUE

\* line 130: the upsert argument updatePrivilegeDocument passes
updateUpsert == FALSE

\* lines 132-143
updateStatus(status, user) ==
    IF isOK(status) THEN status
    ELSE IF status.code = "NoMatchingDocument"
    THEN Status("UserNotFound", <<"User ">> \o getFullName(user) \o <<" not found">>)
    ELSE IF status.code = "UnknownError"
    THEN Status("UserModificationFailed", status.reason)
    ELSE status

\* variant: remove does not translate UnknownError
removeStatus_passThrough(status) == status

\* lines 153-156
removeStatus(status) ==
    IF status.code = "UnknownError"
    THEN Status("UserModificationFailed", status.reason)
    ELSE status

------------------------------------------------------------------------------
(* updateOne *)

\* line 170: the multi argument updateOne passes
updateOneMulti == FALSE

\* line 176: dassert(numUpdated == 1 || numUpdated == 0) fires
\* (dassert is compiled in only in debug builds)
dassertFails(bld, status, numUpdated) ==
    /\ bld = "debug"
    /\ isOK(status)
    /\ ~(numUpdated = 1 \/ numUpdated = 0)

\* lines 173-180: the status returned when the dassert does not fire
updateOneStatus(status, numUpdated) ==
    IF ~isOK(status) THEN status
    ELSE IF numUpdated = 0 THEN Status("NoMatchingDocument", <<"No document found">>)
    ELSE StatusOK

------------------------------------------------------------------------------
(* State *)

NoUser == UserName(<<>>, <<>>)
NoStatus == Status("-", <<>>)

Op(name, user, version, doc, query, upd, upsert, wc) ==
    [name |-> name, user |-> user, version |-> version, doc |-> doc,
     query |-> query, upd |-> upd, upsert |-> upsert, wc |-> wc]

\* status: the Status returned; doc: *result; n: *numRemoved, or for the
\* update operations the local numUpdated (-1: not written); b: the bool
\* hasAnyPrivilegeDocuments returns
Res(status, doc, n, b) == [status |-> status, doc |-> doc, n |-> n, b |-> b]

Call(fn, ns, query, doc, upd, upsert, multi, wc, ret) ==
    [fn |-> fn, ns |-> ns, query |-> query, doc |-> doc, upd |-> upd,
     upsert |-> upsert, multi |-> multi, wc |-> wc, ret |-> ret]

\* the identity a V2 document is stored under
IdOf(doc) == UserName(ElemOrNull(doc, USER_NAME_FIELD_NAME).val,
                      ElemOrNull(doc, USER_SOURCE_FIELD_NAME).val)

\* filters tried: everything, one identity, one user name
Queries == {EmptyObj,
            updateQuery(UserName(<<"alice">>, <<"db1">>)),
            <<StrElem(USER_NAME_FIELD_NAME, <<"alice">>)>>}

\* the store before the first call: empty, or holding a legacy V1 document
InitStores == {{}, {Entry(<<"db1", ".system.users">>, V1Doc(<<"alice">>, 0))}}

NoOp == Op("-", NoUser, 0, EmptyObj, EmptyObj, EmptyObj, FALSE, <<>>)
NoRes == Res(NoStatus, EmptyObj, 0 - 1, FALSE)

Init ==
    /\ build \in {"debug", "release"}
    /\ pc = "idle"
    /\ store \in InitStores
    /\ op = NoOp
    /\ result = NoRes
    /\ calls = <<>>
    /\ inserted = {}

------------------------------------------------------------------------------
(* Operations *)

\* lines 43-92
getPrivilegeDocument(userName, authzVersion, fault) ==
    /\ pc = "idle"
    /\ op' = Op("getPrivilegeDocument", userName, authzVersion,
                EmptyObj, EmptyObj, EmptyObj, FALSE, <<>>)
    /\ IF isInternalUser(userName)
       THEN /\ result' = Res(InternalErrorStatus, EmptyObj, 0 - 1, FALSE)
            /\ calls' = <<>>
       ELSE IF ~validDBName(userName.db)
       THEN /\ result' = Res(BadDbNameStatus(userName.db), EmptyObj, 0 - 1, FALSE)
            /\ calls' = <<>>
       ELSE IF ~versionRecognized(authzVersion)
       THEN /\ result' = Res(UnsupportedFormatStatus(authzVersion), EmptyObj, 0 - 1, FALSE)
            /\ calls' = <<>>
       ELSE LET ns == usersNamespace(userName.db, authzVersion)
                query == getQuery(userName, authzVersion)
            IN \E f \in findUser(store, ns, query, fault) :
                  /\ result' = Res(getFoundStatus(f.ret, userName, ns),
                                   IF isOK(f.ret) THEN f.doc ELSE EmptyObj, 0 - 1, FALSE)
                  /\ calls' = <<Call("find", ns, query, EmptyObj, EmptyObj,
                                     FALSE, FALSE, <<>>, f.ret)>>
    /\ pc' = "returned"
    /\ UNCHANGED <<build, store, inserted>>

\* lines 94-100
hasAnyPrivilegeDocuments(fault) ==
    /\ pc = "idle"
    /\ op' = Op("hasAnyPrivilegeDocuments", NoUser, 0,
                EmptyObj, EmptyObj, EmptyObj, FALSE, <<>>)
    /\ \E f \in findUser(store, AdminUsersNs, EmptyObj, fault) :
          /\ result' = Res(NoStatus, EmptyObj, 0 - 1, hasAnyResult(f.ret))
          /\ calls' = <<Call("find", AdminUsersNs, EmptyObj, EmptyObj, EmptyObj,
                             FALSE, FALSE, <<>>, f.ret)>>
    /\ pc' = "returned"
    /\ UNCHANGED <<build, store, inserted>>

\* lines 103-121 (the dbname parameter is not used by the code)
insertPrivilegeDocument(userObj, writeConcern, fault) ==
    LET r == storeInsert(store, AdminUsersNs, userObj, fault) IN
    /\ pc = "idle"
    /\ Cardinality(r.st) <= MaxDocs
    /\ op' = Op("insertPrivilegeDocument", NoUser, 0,
                userObj, EmptyObj, EmptyObj, FALSE, writeConcern)
    /\ store' = r.st
    /\ result' = Res(insertStatus(r.ret, userObj), EmptyObj, 0 - 1, FALSE)
    /\ calls' = <<Call("insert", AdminUsersNs, EmptyObj, userObj, EmptyObj,
                       FALSE, FALSE, writeConcern, r.ret)>>
    /\ inserted' = IF isOK(r.ret) THEN inserted \cup {IdOf(userObj)} ELSE inserted
    /\ pc' = "returned"
    /\ UNCHANGED build

\* lines 159-181; `direct`: called by the adapter's user rather than by
\* updatePrivilegeDocument, whose translation (lines 132-143) is then applied
updateOneBody(collectionName, query, updatePattern, upsert, writeConcern, fault, user, direct) ==
    \E r \in storeUpdate(store, collectionName, query, updatePattern, upsert,
                         updateOneMulti, fault) :
        /\ Cardinality(r.st) <= MaxDocs
        /\ store' = r.st
        /\ calls' = <<Call("update", collectionName, query, EmptyObj, updatePattern,
                           upsert, updateOneMulti, writeConcern, r.ret)>>
        /\ inserted' = inserted \ {IdOf(e.doc) : e \in V2Docs(store \ r.st)}
        /\ IF dassertFails(build, r.ret, r.n)
           THEN /\ pc' = "aborted"
                /\ result' = Res(Status("Aborted", <<"dassert">>), EmptyObj, r.n, FALSE)
           ELSE /\ pc' = "returned"
                /\ result' = Res(IF direct THEN updateOneStatus(r.ret, r.n)
                                 ELSE updateStatus(updateOneStatus(r.ret, r.n), user),
                                 EmptyObj, r.n, FALSE)

\* lines 123-144
updatePrivilegeDocument(user, updateObj, writeConcern, fault) ==
    /\ pc = "idle"
    /\ op' = Op("updatePrivilegeDocument", user, 0,
                EmptyObj, updateQuery(user), updateObj, updateUpsert, writeConcern)
    /\ updateOneBody(AdminUsersNs, updateQuery(user), updateObj, updateUpsert,
                     writeConcern, fault, user, FALSE)
    /\ UNCHANGED build

\* lines 159-181, called directly
updateOne(collectionName, query, updatePattern, upsert, writeConcern, fault) ==
    /\ pc = "idle"
    /\ op' = Op("updateOne", NoUser, 0,
                EmptyObj, query, updatePattern, upsert, writeConcern)
    /\ updateOneBody(collectionName, query, updatePattern, upsert,
                     writeConcern, fault, NoUser, TRUE)
    /\ UNCHANGED build

\* lines 146-157
removePrivilegeDocuments(query, writeConcern, fault) ==
    LET r == storeRemove(store, AdminUsersNs, query, fault) IN
    /\ pc = "idle"
    /\ op' = Op("removePrivilegeDocuments", NoUser, 0,
                EmptyObj, query, EmptyObj, FALSE, writeConcern)
    /\ store' = r.st
    /\ result' = Res(removeStatus(r.ret), EmptyObj, r.n, FALSE)
    /\ calls' = <<Call("remove", AdminUsersNs, query, EmptyObj, EmptyObj,
                       FALSE, FALSE, writeConcern, r.ret)>>
    /\ inserted' = inserted \ {IdOf(e.doc) : e \in store \ r.st}
    /\ pc' = "returned"
    /\ UNCHANGED build

\* the calls are synchronous: the caller takes the result and may call again
callerContinues ==
    /\ pc = "returned"
    /\ pc' = "idle"
    /\ op' = NoOp
    /\ result' = NoRes
    /\ calls' = <<>>
    /\ UNCHANGED <<build, store, inserted>>

------------------------------------------------------------------------------
(* Specifications *)

NextWith(findFaults, writeFaults, updateFaults) ==
    \/ \E userName \in Identities, authzVersion \in Versions, fault \in findFaults :
          getPrivilegeDocument(userName, authzVersion, fault)
    \/ \E fault \in findFaults : hasAnyPrivilegeDocuments(fault)
    \/ \E userObj \in UserDocs, wc \in WriteConcerns, fault \in writeFaults :
          insertPrivilegeDocument(userObj, wc, fault)
    \/ \E user \in Identities, upd \in UpdatePatterns, wc \in WriteConcerns,
          fault \in updateFaults :
          updatePrivilegeDocument(user, upd, wc, fault)
    \/ \E query \in Queries, upd \in UpdatePatterns,
          upsert \in BOOLEAN, wc \in WriteConcerns, fault \in updateFaults :
          updateOne(AdminUsersNs, query, upd, upsert, wc, fault)
    \/ \E query \in Queries, wc \in WriteConcerns, fault \in writeFaults :
          removePrivilegeDocuments(query, wc, fault)
    \/ callerContinues

\* the store may fail any call, and may ignore multi = false
Next == NextWith(FindFaults, WriteFaults, UpdateFaults)
Spec == Init /\ [][Next]_vars

\* the store answers every call from its contents
NextHonestStore == NextWith({"none"}, {"none"}, {"none"})
SpecHonestStore == Init /\ [][NextHonestStore]_vars

------------------------------------------------------------------------------
(* Properties *)

TheCall == calls[1]
\* the collection and the filters as the documentation tables give them
V2Collection == <<"admin", ".system.users">>
V1Collection(db) == db \o <<".system.users">>
V1Filter(user) == <<[name |-> "user", type |-> "String", val |-> user],
                    [name |-> "userSource", type |-> "Null", val |-> <<>>]>>
V2Filter(user, db) == <<[name |-> "user", type |-> "String", val |-> user],
                        [name |-> "source", type |-> "String", val |-> db]>>
HasV2Doc(st, id) == \E e \in st : e.ns = V2Collection /\ IdOf(e.doc) = id
Ordinary(id) == id # InternalUserName /\ validDBName(id.db)

\* C1: getPrivilegeDocument for the internal identity returns InternalError
\* and issues no store call, for every schema version and every store content.
C1_InternalIdentityRejected ==
    (op.name = "getPrivilegeDocument" /\ op.user = InternalUserName)
        => (result.status.code = "InternalError" /\ calls = <<>>)

C1_Witness ==
    /\ op.name = "getPrivilegeDocument"
    /\ op.user = InternalUserName
    /\ op.version \notin {1, 2}
    /\ HasV2Doc(store, InternalUserName)
    /\ result.status.code = "InternalError"

\* C2: updatePrivilegeDocument for the internal identity, or for an identity
\* whose db name is not valid, issues no store call.
C2_UpdateNeverReachesStore ==
    (op.name = "updatePrivilegeDocument"
        /\ (op.user = InternalUserName \/ ~validDBName(op.user.db)))
        => calls = <<>>

\* C3: updateOne returns NoMatchingDocument when the store's update succeeds
\* with count 0, success when the count is 1, and never returns (it ends in
\* a fault) when the count is above 1, in every build.
C3_UpdateOneCountGuard ==
    (op.name = "updateOne" /\ isOK(TheCall.ret))
        => /\ result.n = 0 => result.status.code = "NoMatchingDocument"
           /\ result.n = 1 => result.status = StatusOK
           /\ result.n > 1 => pc = "aborted"

\* C4 as claimed: on the store's DuplicateKey for an identity already present,
\* insertPrivilegeDocument fails with kind DuplicateIdentity and the message
\* "u@s already exists", and the store holds exactly one document for (u, s).
C4_DuplicateIdentityAsClaimed ==
    (op.name = "insertPrivilegeDocument" /\ TheCall.ret.code = "DuplicateKey"
        /\ HasV2Doc(store, IdOf(op.doc)))
        => /\ result.status.code = "DuplicateIdentity"
           /\ result.status.reason =
                 IdOf(op.doc).user \o <<"@">> \o IdOf(op.doc).db \o <<" already exists">>
           /\ Cardinality({e \in V2Docs(store) : IdOf(e.doc) = IdOf(op.doc)}) = 1

\* C4 (amended): on the store's DuplicateKey for an identity already present,
\* insertPrivilegeDocument fails with the code DuplicateKey itself and the
\* message  User "u@s" already exists  (u, s from the document being
\* inserted), and the store holds exactly one document for (u, s).
C4_DuplicateKeyMessage ==
    (op.name = "insertPrivilegeDocument" /\ TheCall.ret.code = "DuplicateKey"
        /\ HasV2Doc(store, IdOf(op.doc)))
        => /\ result.status.code = "DuplicateKey"
           /\ result.status.reason =
                 <<"User \"">> \o IdOf(op.doc).user \o <<"@">> \o IdOf(op.doc).db
                     \o <<"\" already exists">>
           /\ Cardinality({e \in V2Docs(store) : IdOf(e.doc) = IdOf(op.doc)}) = 1

C4_Witness ==
    /\ op.name = "insertPrivilegeDocument"
    /\ TheCall.ret = StoreDuplicateKey
    /\ HasV2Doc(store, IdOf(op.doc))
    /\ op.doc \notin {e.doc : e \in store}
    /\ result.status.code = "DuplicateKey"

\* C5: for a non-internal identity whose db name is not valid,
\* getPrivilegeDocument returns BadValue with a message that includes the
\* db name, for version 1 and version 2, and issues no store call.
C5_BadDbNameRejected ==
    (op.name = "getPrivilegeDocument" /\ op.user # InternalUserName
        /\ ~validDBName(op.user.db) /\ op.version \in {1, 2})
        => /\ result.status.code = "BadValue"
           /\ Contains(result.status.reason, op.user.db)
           /\ calls = <<>>

C5_Witness ==
    /\ op.name = "getPrivilegeDocument"
    /\ ~validDBName(op.user.db)
    /\ op.version = 2
    /\ V2Docs(store) # {}
    /\ result.status.code = "BadValue"

\* C6: for a non-internal identity with a valid db name, version 1 issues one
\* find on "<db>.system.users" with {user, userSource: null}, version 2 one
\* find on "admin.system.users" with {user, source: db}, and any other
\* version returns UnsupportedFormat naming the version and issues no find.
C6_VersionResolution ==
    (op.name = "getPrivilegeDocument" /\ Ordinary(op.user))
        => /\ op.version = 1 =>
                /\ Len(calls) = 1 /\ TheCall.fn = "find"
                /\ TheCall.ns = V1Collection(op.user.db)
                /\ TheCall.query = V1Filter(op.user.user)
           /\ op.version = 2 =>
                /\ Len(calls) = 1 /\ TheCall.fn = "find"
                /\ TheCall.ns = V2Collection
                /\ TheCall.query = V2Filter(op.user.user, op.user.db)
           /\ op.version \notin {1, 2} =>
                /\ result.status.code = "UnsupportedFormat"
                /\ Contains(result.status.reason, IntToStr(op.version))
                /\ calls = <<>>

C6_Witness ==
    /\ op.name = "getPrivilegeDocument"
    /\ Ordinary(op.user)
    /\ op.version = 1
    /\ isOK(result.status)
    /\ result.doc = V1Doc(op.user.user, 0)

C9_HasAnyDocuments ==
    op.name = "hasAnyPrivilegeDocuments"
        => /\ Len(calls) = 1 /\ TheCall.fn = "find"
           /\ TheCall.ns = V2Collection /\ TheCall.query = <<>>
           /\ result.b = (TheCall.ret.code = "OK")
           /\ TheCall.ret.code \notin StoreErrorCodes
                 => result.b = (V2Docs(store) # {})

C9_Witness ==
    /\ op.name = "hasAnyPrivilegeDocuments"
    /\ TheCall.ret.code = "HostUnreachable"
    /\ V2Docs(store) # {}
    /\ result.b = FALSE

\* C10: each mutator issues exactly one store call; a store UnknownError comes
\* back as UserModificationFailed (the documentation's
\* IdentityModificationFailed) with the store's reason; a store failure
\* outside the codes translated for that operation (DuplicateKey on insert,
\* NoMatchingDocument on update, UnknownError on all three) comes back
\* unchanged in code and message, as does the store's success on insert and
\* remove.
TranslatedCodes(name) ==
    CASE name = "insertPrivilegeDocument" -> {"DuplicateKey", "UnknownError"}
      [] name = "updatePrivilegeDocument" -> {"NoMatchingDocument", "UnknownError"}
      [] name = "removePrivilegeDocuments" -> {"UnknownError"}

StoreFn(name) ==
    CASE name = "insertPrivilegeDocument" -> "insert"
      [] name = "updatePrivilegeDocument" -> "update"
      [] name = "removePrivilegeDocuments" -> "remove"

C10_MutatorStatusTranslation ==
    op.name \in {"insertPrivilegeDocument", "updatePrivilegeDocument",
                 "removePrivilegeDocuments"}
        => /\ Len(calls) = 1 /\ TheCall.fn = StoreFn(op.name)
           /\ TheCall.ret.code = "UnknownError"
                 => result.status = [code |-> "UserModificationFailed",
                                     reason |-> TheCall.ret.reason]
           /\ (TheCall.ret.code # "OK" /\ TheCall.ret.code \notin TranslatedCodes(op.name))
                 => result.status = TheCall.ret
           /\ (TheCall.ret.code = "OK" /\ op.name # "updatePrivilegeDocument")
                 => result.status = TheCall.ret

C10_Witness ==
    /\ op.name = "removePrivilegeDocuments"
    /\ TheCall.ret.code = "UnknownError"
    /\ V2Docs(store) # {}
    /\ result.status.code = "UserModificationFailed"

====
